---- MODULE Spec2Model ----
(***************************************************************************)
(* A model of the Option and Result containers of unwrap-or               *)
(* (src/src/option.ts, src/src/result.ts).                                *)
(*                                                                         *)
(* The state is the heap of container objects built so far and the record *)
(* of the last call: the operation, its receiver and arguments, the       *)
(* callbacks it invoked (with the arguments they were given), and how the *)
(* call ended (a returned value, or a thrown error with its class and     *)
(* message), with the size of the heap when the call began.  A container object is the set of its own symbol-keyed       *)
(* properties, exactly as the constructors write them; is_some, is_none,  *)
(* is_ok and is_err are the `in` tests of the source.                     *)
(***************************************************************************)
EXTENDS Integers, Sequences, FiniteSets, TLC

VARIABLES heap, last

vars == <<heap, last>>

\* Bound of the model: the number of container objects built in one run.
MaxHeap == 3

(***************************************************************************)
(* JavaScript values.  Every value is a record of the same shape: t is    *)
(* the kind, n a number (or, for a reference, the heap address) and s a   *)
(* string.                                                                 *)
(***************************************************************************)
V(t, n, s) == [t |-> t, n |-> n, s |-> s]
Undefined == V("undefined", 0, "")
Num(n) == V("number", n, "")
Str(s) == V("string", 0, s)
Bool(b) == V("boolean", IF b THEN 1 ELSE 0, "")
\* An object that refers to itself, e.g. const o = {}; o.self = o
Cyclic == V("cyclic", 0, "")
Null == V("null", 0, "")
\* A reference to the container object at heap address i
Ref(i) == V("ref", i, "")

Prim == {Num(0), Str("bad"), Undefined, Cyclic}
\* The eager arguments a caller passes: a default value, an error
Defaults == {Num(0), Str("bad")}
Messages == {"want ok"}

\* The module-private property keys.
sid == "@@option/some"
nid == "@@option/none"
oid == "@@result/ok"
eid == "@@result/err"
\* A symbol that is none of the four, as any other code may create
foreign == "@@foreign"

(***************************************************************************)
(* How a call ends: a returned value or a thrown error.  heap is the heap *)
(* after the call, calls the callbacks invoked, in order.                 *)
(***************************************************************************)
Ret(h, v, calls) ==
  [heap |-> h, kind |-> "return", val |-> v, cls |-> "", msg |-> "", calls |-> calls]
Throw(h, cls, msg, calls) ==
  [heap |-> h, kind |-> "throw", val |-> Undefined, cls |-> cls, msg |-> msg, calls |-> calls]

\* new: a fresh object with one own property, at a fresh address
NewObject(h, cls, key, value, calls) ==
  Ret(Append(h, [cls |-> cls, props |-> (key :> value)]), Ref(Len(h) + 1), calls)

\* A constructor that defines both properties on every object
Option_constructor_both(h, id, value, calls) ==
  IF id = sid
  THEN Ret(Append(h, [cls |-> "Option", props |-> (sid :> value) @@ (nid :> Undefined)]),
           Ref(Len(h) + 1), calls)
  ELSE IF id = nid
  THEN Ret(Append(h, [cls |-> "Option", props |-> (nid :> Undefined) @@ (sid :> Undefined)]),
           Ref(Len(h) + 1), calls)
  ELSE Throw(h, "TypeError", "Unknown constructor id", calls)

\* A constructor whose None branch defines the Some key as well
Option_constructor_none_both(h, id, value, calls) ==
  IF id = sid
  THEN NewObject(h, "Option", sid, value, calls)
  ELSE IF id = nid
  THEN Ret(Append(h, [cls |-> "Option", props |-> (sid :> Undefined) @@ (nid :> Undefined)]),
           Ref(Len(h) + 1), calls)
  ELSE Throw(h, "TypeError", "Unknown constructor id", calls)

\* option.ts: constructor
Option_constructor(h, id, value, calls) ==
  IF id = sid THEN NewObject(h, "Option", id, value, calls)
  ELSE IF id = nid THEN NewObject(h, "Option", id, Undefined, calls)
  ELSE Throw(h, "TypeError", "Unknown constructor id", calls)

\* result.ts: constructor
Result_constructor(h, id, value, calls) ==
  NewObject(h, "Result", id, value, calls)

\* key in this
HasOwn(h, this, key) == key \in DOMAIN h[this].props

Option_is_some(h, this) == HasOwn(h, this, sid)
Option_is_none(h, this) == HasOwn(h, this, nid)
Result_is_ok(h, this) == HasOwn(h, this, oid)
Result_is_err(h, this) == HasOwn(h, this, eid)

\* (this as any)[key]: undefined when the property is missing
Get(h, this, key) == IF HasOwn(h, this, key) THEN h[this].props[key] ELSE Undefined

\* The guard messages are the source's, with its backquotes written as apostrophes.
Option_extract(h, this, calls) ==
  IF Option_is_none(h, this)
  THEN Throw(h, "TypeError", "Prevent taking value from 'None'.", calls)
  ELSE Ret(h, Get(h, this, sid), calls)

Result_extract(h, this, calls) ==
  IF Result_is_err(h, this)
  THEN Throw(h, "TypeError", "Prevent taking value from 'Err(E)'.", calls)
  ELSE Ret(h, Get(h, this, oid), calls)

Result_extract_err(h, this, calls) ==
  IF Result_is_ok(h, this)
  THEN Throw(h, "TypeError", "Prevent taking err from 'Ok(T)'.", calls)
  ELSE Ret(h, Get(h, this, eid), calls)

\* A factory that takes a missing value for no value
Some_defined(h, value, calls) ==
  IF value \in {Undefined, Null}
  THEN Option_constructor(h, nid, Undefined, calls)
  ELSE Option_constructor(h, sid, value, calls)

\* The factories.  None is a module constant: the object at address 1.
Some(h, value, calls) == Option_constructor(h, sid, value, calls)
None == 1
Ok(h, value, calls) == Result_constructor(h, oid, value, calls)
Err(h, err, calls) == Result_constructor(h, eid, err, calls)

(***************************************************************************)
(* The callbacks a caller passes: x => x, x => 0, x => x === 0,           *)
(* x => {}, x => Some(x), x => None, x => Ok(x), x => Err(x), () => 0,    *)
(* and callbacks that throw.  A callback called with no argument reads    *)
(* its parameter as undefined.                                            *)
(***************************************************************************)
Mappers == {"id", "k0", "raise"}
Predicates == {"is0", "raise"}
Effects == {"noop", "raise"}
Thunks == {"t0", "tfail"}
OptionMakers == {"some", "none", "raise"}
ResultMakers == {"ok", "err", "raise"}

Invoke(h, f, args, calls) ==
  LET x == IF Len(args) >= 1 THEN args[1] ELSE Undefined
      cs == Append(calls, [f |-> f, args |-> args])
  IN CASE f = "id" -> Ret(h, x, cs)
       [] f = "k0" -> Ret(h, Num(0), cs)
       [] f = "is0" -> Ret(h, Bool(x = Num(0)), cs)
       [] f = "noop" -> Ret(h, Undefined, cs)
       [] f = "some" -> Some(h, x, cs)
       [] f = "none" -> Ret(h, Ref(None), cs)
       [] f = "ok" -> Ok(h, x, cs)
       [] f = "err" -> Err(h, x, cs)
       [] f = "t0" -> Ret(h, Num(0), cs)
       [] f = "raise" -> Throw(h, "Error", "boom", cs)
       [] f = "tfail" -> Throw(h, "Error", "boom", cs)

\* A call step that raised ends the method with the same error.
Raised(r) == r.kind = "throw"
Truthy(v) == v = Bool(TRUE)

(***************************************************************************)
(* String conversion of a value, as a template literal does it: a         *)
(* container converts by its own toString.                                 *)
(***************************************************************************)
RECURSIVE Display(_, _, _)
RECURSIVE Option_toString(_, _, _)
RECURSIVE Result_toString(_, _, _)

Display(h, v, calls) ==
  CASE v.t = "number" -> Ret(h, Str(ToString(v.n)), calls)
    [] v.t = "string" -> Ret(h, v, calls)
    [] v.t = "boolean" -> Ret(h, Str(IF v.n = 1 THEN "true" ELSE "false"), calls)
    [] v.t = "undefined" -> Ret(h, Str("undefined"), calls)
    [] v.t = "null" -> Ret(h, Str("null"), calls)
    [] v.t = "cyclic" -> Ret(h, Str("[object Object]"), calls)
    [] v.t = "ref" -> IF h[v.n].cls = "Option"
                      THEN Option_toString(h, v.n, calls)
                      ELSE Result_toString(h, v.n, calls)

Option_toString(h, this, calls) ==
  IF Option_is_some(h, this)
  THEN LET x == Option_extract(h, this, calls) IN
       IF Raised(x) THEN x ELSE
       LET d == Display(h, x.val, calls) IN
       IF Raised(d) THEN d ELSE Ret(h, Str("Some(" \o d.val.s \o ")"), calls)
  ELSE Ret(h, Str("None"), calls)

Result_toString(h, this, calls) ==
  LET value == IF Result_is_ok(h, this)
               THEN Result_extract(h, this, calls)
               ELSE Result_extract_err(h, this, calls)
  IN IF Raised(value) THEN value ELSE
     LET d == Display(h, value.val, calls) IN
     IF Raised(d) THEN d
     ELSE IF Result_is_ok(h, this)
          THEN Ret(h, Str("Ok(" \o d.val.s \o ")"), calls)
          ELSE Ret(h, Str("Err(" \o d.val.s \o ")"), calls)

(***************************************************************************)
(* JSON.stringify: a string is quoted, undefined has no rendering (the    *)
(* result is undefined), a container has only symbol-keyed properties and *)
(* renders as {}, a cyclic structure raises.                              *)
(***************************************************************************)
JSON_stringify(h, v, calls) ==
  CASE v.t = "number" -> Ret(h, Str(ToString(v.n)), calls)
    [] v.t = "string" -> Ret(h, Str("\"" \o v.s \o "\""), calls)
    [] v.t = "boolean" -> Ret(h, Str(IF v.n = 1 THEN "true" ELSE "false"), calls)
    [] v.t = "undefined" -> Ret(h, Undefined, calls)
    [] v.t = "null" -> Ret(h, Str("null"), calls)
    [] v.t = "cyclic" ->
         Throw(h, "TypeError", "Converting circular structure to JSON", calls)
    [] v.t = "ref" -> Ret(h, Str("{}"), calls)

(***************************************************************************)
(* Option (src/src/option.ts).  this and optb are heap addresses.         *)
(***************************************************************************)
\* An and that answers as or does: the receiver when it is a Some
Option_and_self(h, this, optb) ==
  IF Option_is_some(h, this)
  THEN Ret(h, Ref(this), <<>>)
  ELSE Option_constructor(h, nid, Undefined, <<>>)

Option_and(h, this, optb) ==
  IF Option_is_some(h, this)
  THEN Ret(h, Ref(optb), <<>>)
  ELSE Option_constructor(h, nid, Undefined, <<>>)

Option_and_then_noarg(h, this, f) ==
  IF Option_is_some(h, this)
  THEN Invoke(h, f, <<>>, <<>>)
  ELSE Option_constructor(h, nid, Undefined, <<>>)

\* An and_then that wraps what f returns, as map does
Option_and_then_wrap(h, this, f) ==
  IF Option_is_some(h, this)
  THEN LET y == Invoke(h, f, <<Get(h, this, sid)>>, <<>>) IN
       IF Raised(y) THEN y ELSE Option_constructor(y.heap, sid, y.val, y.calls)
  ELSE Option_constructor(h, nid, Undefined, <<>>)

Option_and_then(h, this, f) ==
  IF Option_is_some(h, this)
  THEN LET x == Option_extract(h, this, <<>>) IN
       IF Raised(x) THEN x ELSE Invoke(h, f, <<x.val>>, x.calls)
  ELSE Option_constructor(h, nid, Undefined, <<>>)

Option_expect(h, this, msg) ==
  IF Option_is_some(h, this)
  THEN Option_extract(h, this, <<>>)
  ELSE Throw(h, "Error", msg, <<>>)

Option_filter_keep(h, this, predicate) ==
  IF Option_is_some(h, this)
  THEN LET x == Option_extract(h, this, <<>>) IN
       IF Raised(x) THEN x ELSE
       LET p == Invoke(h, predicate, <<x.val>>, x.calls) IN
       IF Raised(p) THEN p
       ELSE Option_constructor(p.heap, sid, x.val, p.calls)
  ELSE Option_constructor(h, nid, Undefined, <<>>)

Option_filter(h, this, predicate) ==
  IF Option_is_some(h, this)
  THEN LET x == Option_extract(h, this, <<>>) IN
       IF Raised(x) THEN x ELSE
       LET p == Invoke(h, predicate, <<x.val>>, x.calls) IN
       IF Raised(p) THEN p
       ELSE IF Truthy(p.val)
            THEN LET y == Option_extract(p.heap, this, p.calls) IN
                 IF Raised(y) THEN y
                 ELSE Option_constructor(y.heap, sid, y.val, y.calls)
            ELSE Option_constructor(p.heap, nid, Undefined, p.calls)
  ELSE Option_constructor(h, nid, Undefined, <<>>)

Option_flatten(h, this) ==
  IF Option_is_some(h, this)
  THEN Option_extract(h, this, <<>>)
  ELSE Option_constructor(h, nid, Undefined, <<>>)

\* An inspect that takes the value out of its receiver
Option_inspect_take(h, this, f) ==
  IF Option_is_some(h, this)
  THEN LET x == Option_extract(h, this, <<>>) IN
       IF Raised(x) THEN x ELSE
       LET r == Invoke(h, f, <<x.val>>, x.calls) IN
       IF Raised(r) THEN r
       ELSE Ret([r.heap EXCEPT ![this].props = (sid :> Undefined)], Ref(this), r.calls)
  ELSE Ret(h, Ref(this), <<>>)

Option_inspect(h, this, f) ==
  IF Option_is_some(h, this)
  THEN LET x == Option_extract(h, this, <<>>) IN
       IF Raised(x) THEN x ELSE
       LET r == Invoke(h, f, <<x.val>>, x.calls) IN
       IF Raised(r) THEN r ELSE Ret(r.heap, Ref(this), r.calls)
  ELSE Ret(h, Ref(this), <<>>)

Option_is_none_or(h, this, f) ==
  IF Option_is_some(h, this)
  THEN LET x == Option_extract(h, this, <<>>) IN
       IF Raised(x) THEN x ELSE Invoke(h, f, <<x.val>>, x.calls)
  ELSE Ret(h, Bool(TRUE), <<>>)

Option_is_some_and(h, this, f) ==
  IF Option_is_some(h, this)
  THEN LET x == Option_extract(h, this, <<>>) IN
       IF Raised(x) THEN x ELSE Invoke(h, f, <<x.val>>, x.calls)
  ELSE Ret(h, Bool(FALSE), <<>>)

\* A map that returns what f returns, not wrapped
Option_map_bare(h, this, f) ==
  IF Option_is_some(h, this)
  THEN Invoke(h, f, <<Get(h, this, sid)>>, <<>>)
  ELSE Option_constructor(h, nid, Undefined, <<>>)

Option_map(h, this, f) ==
  IF Option_is_some(h, this)
  THEN LET x == Option_extract(h, this, <<>>) IN
       IF Raised(x) THEN x ELSE
       LET y == Invoke(h, f, <<x.val>>, x.calls) IN
       IF Raised(y) THEN y ELSE Option_constructor(y.heap, sid, y.val, y.calls)
  ELSE Option_constructor(h, nid, Undefined, <<>>)

Option_map_or(h, this, default_value, f) ==
  IF Option_is_some(h, this)
  THEN LET x == Option_extract(h, this, <<>>) IN
       IF Raised(x) THEN x ELSE Invoke(h, f, <<x.val>>, x.calls)
  ELSE Ret(h, default_value, <<>>)

Option_map_or_else_eager(h, this, default_f, f) ==
  LET d == Invoke(h, default_f, <<>>, <<>>) IN
  IF Raised(d) THEN d
  ELSE IF Option_is_some(h, this)
       THEN Invoke(d.heap, f, <<Get(h, this, sid)>>, d.calls)
       ELSE d

Option_map_or_else(h, this, default_f, f) ==
  IF Option_is_some(h, this)
  THEN LET x == Option_extract(h, this, <<>>) IN
       IF Raised(x) THEN x ELSE Invoke(h, f, <<x.val>>, x.calls)
  ELSE Invoke(h, default_f, <<>>, <<>>)

Option_ok_or_err(h, this, err) == Err(h, err, <<>>)

Option_ok_or(h, this, err) ==
  IF Option_is_some(h, this)
  THEN LET x == Option_extract(h, this, <<>>) IN
       IF Raised(x) THEN x ELSE Ok(h, x.val, x.calls)
  ELSE Err(h, err, <<>>)

Option_or(h, this, optb) ==
  IF Option_is_some(h, this)
  THEN LET x == Option_extract(h, this, <<>>) IN
       IF Raised(x) THEN x ELSE Option_constructor(h, sid, x.val, x.calls)
  ELSE Ret(h, Ref(optb), <<>>)

Option_or_else(h, this, f) ==
  IF Option_is_some(h, this)
  THEN LET x == Option_extract(h, this, <<>>) IN
       IF Raised(x) THEN x ELSE Option_constructor(h, sid, x.val, x.calls)
  ELSE Invoke(h, f, <<>>, <<>>)

\* An unwrap that reads the property whatever the variant
Option_unwrap_unchecked(h, this) == Ret(h, Get(h, this, sid), <<>>)

Option_unwrap(h, this) ==
  IF Option_is_some(h, this)
  THEN Option_extract(h, this, <<>>)
  ELSE Throw(h, "TypeError", "Called Option.unwrap() on a None value", <<>>)

Option_unwrap_or(h, this, default_value) ==
  IF Option_is_some(h, this)
  THEN Option_extract(h, this, <<>>)
  ELSE Ret(h, default_value, <<>>)

Option_unwrap_or_else(h, this, f) ==
  IF Option_is_some(h, this)
  THEN Option_extract(h, this, <<>>)
  ELSE Invoke(h, f, <<>>, <<>>)

Option_xor_or(h, this, optb) ==
  IF Option_is_some(h, this)
  THEN LET x == Option_extract(h, this, <<>>) IN
       IF Raised(x) THEN x ELSE Option_constructor(h, sid, x.val, x.calls)
  ELSE IF Option_is_some(h, optb)
       THEN Ret(h, Ref(optb), <<>>)
       ELSE Option_constructor(h, nid, Undefined, <<>>)

Option_xor(h, this, optb) ==
  IF Option_is_some(h, this)
  THEN IF Option_is_none(h, optb)
       THEN LET x == Option_extract(h, this, <<>>) IN
            IF Raised(x) THEN x ELSE Option_constructor(h, sid, x.val, x.calls)
       ELSE Option_constructor(h, nid, Undefined, <<>>)
  ELSE IF Option_is_some(h, optb)
       THEN Ret(h, Ref(optb), <<>>)
       ELSE Option_constructor(h, nid, Undefined, <<>>)

(***************************************************************************)
(* Result (src/src/result.ts).  this and res are heap addresses.          *)
(***************************************************************************)
\* An and that builds the Err before it looks at the variant
Result_and_unguarded(h, this, res) ==
  LET e == Result_extract_err(h, this, <<>>) IN
  IF Raised(e) THEN e
  ELSE IF Result_is_ok(h, this)
       THEN Ret(h, Ref(res), <<>>)
       ELSE Result_constructor(h, eid, e.val, e.calls)

Result_and_first(h, this, res) ==
  IF Result_is_ok(h, this)
  THEN Ret(h, Ref(this), <<>>)
  ELSE LET e == Result_extract_err(h, this, <<>>) IN
       IF Raised(e) THEN e ELSE Result_constructor(h, eid, e.val, e.calls)

Result_and(h, this, res) ==
  IF Result_is_ok(h, this)
  THEN Ret(h, Ref(res), <<>>)
  ELSE LET e == Result_extract_err(h, this, <<>>) IN
       IF Raised(e) THEN e ELSE Result_constructor(h, eid, e.val, e.calls)

\* An and_then that catches what op throws and returns it as an Err
Result_and_then_caught(h, this, op) ==
  IF Result_is_ok(h, this)
  THEN LET y == Invoke(h, op, <<Get(h, this, oid)>>, <<>>) IN
       IF Raised(y) THEN Result_constructor(h, eid, Str(y.msg), y.calls) ELSE y
  ELSE Result_constructor(h, eid, Get(h, this, eid), <<>>)

Result_and_then(h, this, op) ==
  IF Result_is_ok(h, this)
  THEN LET x == Result_extract(h, this, <<>>) IN
       IF Raised(x) THEN x ELSE Invoke(h, op, <<x.val>>, x.calls)
  ELSE LET e == Result_extract_err(h, this, <<>>) IN
       IF Raised(e) THEN e ELSE Result_constructor(h, eid, e.val, e.calls)

\* `${msg}: ${str_err}`
Result_expect(h, this, msg) ==
  IF Result_is_ok(h, this)
  THEN Result_extract(h, this, <<>>)
  ELSE LET err == Result_extract_err(h, this, <<>>) IN
       IF Raised(err) THEN err ELSE
       LET str_err == JSON_stringify(h, err.val, err.calls) IN
       IF Raised(str_err) THEN str_err ELSE
       LET d == Display(h, str_err.val, str_err.calls) IN
       IF Raised(d) THEN d ELSE Throw(h, "Error", msg \o ": " \o d.val.s, d.calls)

\* An expect_err that puts the value itself, not its JSON rendering, in the message
Result_expect_err_plain(h, this, msg) ==
  IF Result_is_err(h, this)
  THEN Result_extract_err(h, this, <<>>)
  ELSE LET value == Result_extract(h, this, <<>>) IN
       IF Raised(value) THEN value ELSE
       LET d == Display(h, value.val, value.calls) IN
       IF Raised(d) THEN d ELSE Throw(h, "Error", msg \o ": " \o d.val.s, d.calls)

Result_expect_err(h, this, msg) ==
  IF Result_is_err(h, this)
  THEN Result_extract_err(h, this, <<>>)
  ELSE LET value == Result_extract(h, this, <<>>) IN
       IF Raised(value) THEN value ELSE
       LET str_value == JSON_stringify(h, value.val, value.calls) IN
       IF Raised(str_value) THEN str_value ELSE
       LET d == Display(h, str_value.val, str_value.calls) IN
       IF Raised(d) THEN d ELSE Throw(h, "Error", msg \o ": " \o d.val.s, d.calls)

Result_inspect(h, this, f) ==
  IF Result_is_ok(h, this)
  THEN LET x == Result_extract(h, this, <<>>) IN
       IF Raised(x) THEN x ELSE
       LET r == Invoke(h, f, <<x.val>>, x.calls) IN
       IF Raised(r) THEN r ELSE Ret(r.heap, Ref(this), r.calls)
  ELSE Ret(h, Ref(this), <<>>)

Result_inspect_err_any(h, this, f) ==
  LET r == Invoke(h, f, <<Get(h, this, eid)>>, <<>>) IN
  IF Raised(r) THEN r ELSE Ret(r.heap, Ref(this), r.calls)

Result_inspect_err(h, this, f) ==
  IF Result_is_err(h, this)
  THEN LET e == Result_extract_err(h, this, <<>>) IN
       IF Raised(e) THEN e ELSE
       LET r == Invoke(h, f, <<e.val>>, e.calls) IN
       IF Raised(r) THEN r ELSE Ret(r.heap, Ref(this), r.calls)
  ELSE Ret(h, Ref(this), <<>>)

Result_is_err_and_value(h, this, f) ==
  IF Result_is_err(h, this)
  THEN Invoke(h, f, <<Get(h, this, oid)>>, <<>>)
  ELSE Ret(h, Bool(FALSE), <<>>)

Result_is_err_and(h, this, f) ==
  IF Result_is_err(h, this)
  THEN LET e == Result_extract_err(h, this, <<>>) IN
       IF Raised(e) THEN e ELSE Invoke(h, f, <<e.val>>, e.calls)
  ELSE Ret(h, Bool(FALSE), <<>>)

Result_is_ok_and(h, this, f) ==
  IF Result_is_ok(h, this)
  THEN LET x == Result_extract(h, this, <<>>) IN
       IF Raised(x) THEN x ELSE Invoke(h, f, <<x.val>>, x.calls)
  ELSE Ret(h, Bool(FALSE), <<>>)

Result_map_both(h, this, f) ==
  LET v == IF Result_is_ok(h, this) THEN Get(h, this, oid) ELSE Get(h, this, eid)
      y == Invoke(h, f, <<v>>, <<>>)
  IN IF Raised(y) THEN y
     ELSE Result_constructor(y.heap, IF Result_is_ok(h, this) THEN oid ELSE eid, y.val, y.calls)

Result_map(h, this, f) ==
  IF Result_is_ok(h, this)
  THEN LET x == Result_extract(h, this, <<>>) IN
       IF Raised(x) THEN x ELSE
       LET y == Invoke(h, f, <<x.val>>, x.calls) IN
       IF Raised(y) THEN y ELSE Result_constructor(y.heap, oid, y.val, y.calls)
  ELSE LET e == Result_extract_err(h, this, <<>>) IN
       IF Raised(e) THEN e ELSE Result_constructor(h, eid, e.val, e.calls)

Result_map_or(h, this, default_value, f) ==
  IF Result_is_ok(h, this)
  THEN LET x == Result_extract(h, this, <<>>) IN
       IF Raised(x) THEN x ELSE Invoke(h, f, <<x.val>>, x.calls)
  ELSE Ret(h, default_value, <<>>)

\* A map_or_else that computes the default before it looks at the variant
Result_map_or_else_eager(h, this, default_f, f) ==
  LET d == Invoke(h, default_f, <<>>, <<>>) IN
  IF Raised(d) THEN d
  ELSE IF Result_is_ok(h, this)
       THEN LET x == Result_extract(h, this, d.calls) IN
            IF Raised(x) THEN x ELSE Invoke(h, f, <<x.val>>, x.calls)
       ELSE d

Result_map_or_else(h, this, default_f, f) ==
  IF Result_is_ok(h, this)
  THEN LET x == Result_extract(h, this, <<>>) IN
       IF Raised(x) THEN x ELSE Invoke(h, f, <<x.val>>, x.calls)
  ELSE Invoke(h, default_f, <<>>, <<>>)

Result_or(h, this, res) ==
  IF Result_is_ok(h, this)
  THEN LET x == Result_extract(h, this, <<>>) IN
       IF Raised(x) THEN x ELSE Result_constructor(h, oid, x.val, x.calls)
  ELSE Ret(h, Ref(res), <<>>)

\* f is called with no argument
Result_or_else(h, this, f) ==
  IF Result_is_ok(h, this)
  THEN LET x == Result_extract(h, this, <<>>) IN
       IF Raised(x) THEN x ELSE Result_constructor(h, oid, x.val, x.calls)
  ELSE Invoke(h, f, <<>>, <<>>)

Result_unwrap(h, this) ==
  IF Result_is_ok(h, this)
  THEN Result_extract(h, this, <<>>)
  ELSE Throw(h, "TypeError", "Called Result.unwrap() on an Err value", <<>>)

\* An unwrap_err that raises with the message of unwrap
Result_unwrap_err_copied(h, this) ==
  IF Result_is_err(h, this)
  THEN Result_extract_err(h, this, <<>>)
  ELSE Throw(h, "TypeError", "Called Result.unwrap() on an Err value", <<>>)

Result_unwrap_err(h, this) ==
  IF Result_is_err(h, this)
  THEN Result_extract_err(h, this, <<>>)
  ELSE Throw(h, "TypeError", "Called Result.unwrap_err() on an Ok value", <<>>)

Result_unwrap_or(h, this, default_value) ==
  IF Result_is_ok(h, this)
  THEN Result_extract(h, this, <<>>)
  ELSE Ret(h, default_value, <<>>)

\* An unwrap_or_else that calls f with no argument
Result_unwrap_or_else_noarg(h, this, f) ==
  IF Result_is_ok(h, this)
  THEN Result_extract(h, this, <<>>)
  ELSE Invoke(h, f, <<>>, <<>>)

\* f is called with the error
Result_unwrap_or_else(h, this, f) ==
  IF Result_is_ok(h, this)
  THEN Result_extract(h, this, <<>>)
  ELSE LET e == Result_extract_err(h, this, <<>>) IN
       IF Raised(e) THEN e ELSE Invoke(h, f, <<e.val>>, e.calls)

(***************************************************************************)
(* The state machine: one action per exported operation.                  *)
(***************************************************************************)
Options(h) == {i \in 1..Len(h) : h[i].cls = "Option"}
Results(h) == {i \in 1..Len(h) : h[i].cls = "Result"}
\* The values a caller wraps: a primitive or an Option built so far
Values(h) == Prim \cup {Ref(i) : i \in Options(h)}
\* The receivers flatten is typed for: an Option of an Option
Nested(h) == {i \in Options(h) : Option_is_some(h, i) =>
                 /\ Get(h, i, sid).t = "ref"
                 /\ Get(h, i, sid).n \in Options(h)}

NoCall ==
  [op |-> "", this |-> 0, args |-> <<>>, fs |-> <<>>, kind |-> "return",
   val |-> Undefined, cls |-> "", msg |-> "", calls |-> <<>>, base |-> 0]

\* export const None = new Option(nid)
Init ==
  /\ heap = Option_constructor(<<>>, nid, Undefined, <<>>).heap
  /\ last = NoCall

\* The caller's call op(args) on this, with callbacks fs, ends as res.
Call(op, this, args, fs, res) ==
  /\ last = NoCall
  /\ \E r \in {res} :
       /\ Len(r.heap) <= MaxHeap
       /\ heap' = r.heap
       /\ last' = [op |-> op, this |-> this, args |-> args, fs |-> fs, kind |-> r.kind,
                   val |-> r.val, cls |-> r.cls, msg |-> r.msg, calls |-> r.calls,
                   base |-> Len(heap)]

\* The caller has seen how the call ended and goes on to its next call.
Continue ==
  /\ last # NoCall
  /\ last' = NoCall
  /\ UNCHANGED heap

CallSome ==
  \E v \in Values(heap) :
    Call("Some", 0, <<v>>, <<>>, Some(heap, v, <<>>))

CallOk ==
  \E v \in Prim :
    Call("Ok", 0, <<v>>, <<>>, Ok(heap, v, <<>>))

CallErr ==
  \E v \in Prim :
    Call("Err", 0, <<v>>, <<>>, Err(heap, v, <<>>))

CallOption_and ==
  \E x \in Options(heap), y \in Options(heap) :
    Call("Option.and", x, <<Ref(y)>>, <<>>, Option_and(heap, x, y))

CallOption_and_then ==
  \E x \in Options(heap), f \in OptionMakers :
    Call("Option.and_then", x, <<>>, <<f>>, Option_and_then(heap, x, f))

CallOption_expect ==
  \E x \in Options(heap), msg \in Messages :
    Call("Option.expect", x, <<Str(msg)>>, <<>>, Option_expect(heap, x, msg))

CallOption_filter ==
  \E x \in Options(heap), f \in Predicates :
    Call("Option.filter", x, <<>>, <<f>>, Option_filter(heap, x, f))

CallOption_flatten ==
  \E x \in Nested(heap) :
    Call("Option.flatten", x, <<>>, <<>>, Option_flatten(heap, x))

CallOption_inspect ==
  \E x \in Options(heap), f \in Effects :
    Call("Option.inspect", x, <<>>, <<f>>, Option_inspect(heap, x, f))

CallOption_is_none ==
  \E x \in Options(heap) :
    Call("Option.is_none", x, <<>>, <<>>, Ret(heap, Bool(Option_is_none(heap, x)), <<>>))

CallOption_is_none_or ==
  \E x \in Options(heap), f \in Predicates :
    Call("Option.is_none_or", x, <<>>, <<f>>, Option_is_none_or(heap, x, f))

CallOption_is_some ==
  \E x \in Options(heap) :
    Call("Option.is_some", x, <<>>, <<>>, Ret(heap, Bool(Option_is_some(heap, x)), <<>>))

CallOption_is_some_and ==
  \E x \in Options(heap), f \in Predicates :
    Call("Option.is_some_and", x, <<>>, <<f>>, Option_is_some_and(heap, x, f))

CallOption_map ==
  \E x \in Options(heap), f \in Mappers :
    Call("Option.map", x, <<>>, <<f>>, Option_map(heap, x, f))

CallOption_map_or ==
  \E x \in Options(heap), d \in Defaults, f \in Mappers :
    Call("Option.map_or", x, <<d>>, <<f>>, Option_map_or(heap, x, d, f))

CallOption_map_or_else ==
  \E x \in Options(heap), g \in Thunks, f \in Mappers :
    Call("Option.map_or_else", x, <<>>, <<g, f>>, Option_map_or_else(heap, x, g, f))

CallOption_ok_or ==
  \E x \in Options(heap), e \in Defaults :
    Call("Option.ok_or", x, <<e>>, <<>>, Option_ok_or(heap, x, e))

CallOption_or ==
  \E x \in Options(heap), y \in Options(heap) :
    Call("Option.or", x, <<Ref(y)>>, <<>>, Option_or(heap, x, y))

CallOption_or_else ==
  \E x \in Options(heap), f \in OptionMakers :
    Call("Option.or_else", x, <<>>, <<f>>, Option_or_else(heap, x, f))

CallOption_toString ==
  \E x \in Options(heap) :
    Call("Option.toString", x, <<>>, <<>>, Option_toString(heap, x, <<>>))

CallOption_unwrap ==
  \E x \in Options(heap) :
    Call("Option.unwrap", x, <<>>, <<>>, Option_unwrap(heap, x))

CallOption_unwrap_or ==
  \E x \in Options(heap), d \in Defaults :
    Call("Option.unwrap_or", x, <<d>>, <<>>, Option_unwrap_or(heap, x, d))

CallOption_unwrap_or_else ==
  \E x \in Options(heap), f \in Thunks :
    Call("Option.unwrap_or_else", x, <<>>, <<f>>, Option_unwrap_or_else(heap, x, f))

CallOption_xor ==
  \E x \in Options(heap), y \in Options(heap) :
    Call("Option.xor", x, <<Ref(y)>>, <<>>, Option_xor(heap, x, y))

CallResult_and ==
  \E x \in Results(heap), y \in Results(heap) :
    Call("Result.and", x, <<Ref(y)>>, <<>>, Result_and(heap, x, y))

CallResult_and_then ==
  \E x \in Results(heap), f \in ResultMakers :
    Call("Result.and_then", x, <<>>, <<f>>, Result_and_then(heap, x, f))

CallResult_expect ==
  \E x \in Results(heap), msg \in Messages :
    Call("Result.expect", x, <<Str(msg)>>, <<>>, Result_expect(heap, x, msg))

CallResult_expect_err ==
  \E x \in Results(heap), msg \in Messages :
    Call("Result.expect_err", x, <<Str(msg)>>, <<>>, Result_expect_err(heap, x, msg))

CallResult_inspect ==
  \E x \in Results(heap), f \in Effects :
    Call("Result.inspect", x, <<>>, <<f>>, Result_inspect(heap, x, f))

CallResult_inspect_err ==
  \E x \in Results(heap), f \in Effects :
    Call("Result.inspect_err", x, <<>>, <<f>>, Result_inspect_err(heap, x, f))

CallResult_is_err ==
  \E x \in Results(heap) :
    Call("Result.is_err", x, <<>>, <<>>, Ret(heap, Bool(Result_is_err(heap, x)), <<>>))

CallResult_is_err_and ==
  \E x \in Results(heap), f \in Predicates :
    Call("Result.is_err_and", x, <<>>, <<f>>, Result_is_err_and(heap, x, f))

CallResult_is_ok ==
  \E x \in Results(heap) :
    Call("Result.is_ok", x, <<>>, <<>>, Ret(heap, Bool(Result_is_ok(heap, x)), <<>>))

CallResult_is_ok_and ==
  \E x \in Results(heap), f \in Predicates :
    Call("Result.is_ok_and", x, <<>>, <<f>>, Result_is_ok_and(heap, x, f))

CallResult_map ==
  \E x \in Results(heap), f \in Mappers :
    Call("Result.map", x, <<>>, <<f>>, Result_map(heap, x, f))

CallResult_map_or ==
  \E x \in Results(heap), d \in Defaults, f \in Mappers :
    Call("Result.map_or", x, <<d>>, <<f>>, Result_map_or(heap, x, d, f))

CallResult_map_or_else ==
  \E x \in Results(heap), g \in Thunks, f \in Mappers :
    Call("Result.map_or_else", x, <<>>, <<g, f>>, Result_map_or_else(heap, x, g, f))

CallResult_or ==
  \E x \in Results(heap), y \in Results(heap) :
    Call("Result.or", x, <<Ref(y)>>, <<>>, Result_or(heap, x, y))

CallResult_or_else ==
  \E x \in Results(heap), f \in ResultMakers :
    Call("Result.or_else", x, <<>>, <<f>>, Result_or_else(heap, x, f))

CallResult_toString ==
  \E x \in Results(heap) :
    Call("Result.toString", x, <<>>, <<>>, Result_toString(heap, x, <<>>))

CallResult_unwrap ==
  \E x \in Results(heap) :
    Call("Result.unwrap", x, <<>>, <<>>, Result_unwrap(heap, x))

CallResult_unwrap_err ==
  \E x \in Results(heap) :
    Call("Result.unwrap_err", x, <<>>, <<>>, Result_unwrap_err(heap, x))

CallResult_unwrap_or ==
  \E x \in Results(heap), d \in Defaults :
    Call("Result.unwrap_or", x, <<d>>, <<>>, Result_unwrap_or(heap, x, d))

CallResult_unwrap_or_else ==
  \E x \in Results(heap), f \in Mappers :
    Call("Result.unwrap_or_else", x, <<>>, <<f>>, Result_unwrap_or_else(heap, x, f))

Next ==
  \/ Continue
  \/ CallSome
  \/ CallOk
  \/ CallErr
  \/ CallOption_and
  \/ CallOption_and_then
  \/ CallOption_expect
  \/ CallOption_filter
  \/ CallOption_flatten
  \/ CallOption_inspect
  \/ CallOption_is_none
  \/ CallOption_is_none_or
  \/ CallOption_is_some
  \/ CallOption_is_some_and
  \/ CallOption_map
  \/ CallOption_map_or
  \/ CallOption_map_or_else
  \/ CallOption_ok_or
  \/ CallOption_or
  \/ CallOption_or_else
  \/ CallOption_toString
  \/ CallOption_unwrap
  \/ CallOption_unwrap_or
  \/ CallOption_unwrap_or_else
  \/ CallOption_xor
  \/ CallResult_and
  \/ CallResult_and_then
  \/ CallResult_expect
  \/ CallResult_expect_err
  \/ CallResult_inspect
  \/ CallResult_inspect_err
  \/ CallResult_is_err
  \/ CallResult_is_err_and
  \/ CallResult_is_ok
  \/ CallResult_is_ok_and
  \/ CallResult_map
  \/ CallResult_map_or
  \/ CallResult_map_or_else
  \/ CallResult_or
  \/ CallResult_or_else
  \/ CallResult_toString
  \/ CallResult_unwrap
  \/ CallResult_unwrap_err
  \/ CallResult_unwrap_or
  \/ CallResult_unwrap_or_else

Spec == Init /\ [][Next]_vars

(***************************************************************************)
(* Code outside the module.  Both classes are exported with a public      *)
(* constructor, and the four keys are registered with Symbol.for, so any  *)
(* code can name them; it can also pass a symbol of its own.              *)
(***************************************************************************)
CallNewOption ==
  \E id \in {sid, nid, foreign}, v \in Prim :
    Call("new Option", 0, <<Str(id), v>>, <<>>, Option_constructor(heap, id, v, <<>>))

CallNewResult ==
  \E id \in {oid, eid, foreign}, v \in Prim :
    Call("new Result", 0, <<Str(id), v>>, <<>>, Result_constructor(heap, id, v, <<>>))

NextOpen ==
  \/ Next
  \/ CallNewOption
  \/ CallNewResult

SpecOpen == Init /\ [][NextOpen]_vars

(***************************************************************************)
(* The factories on every kind of payload: a primitive, undefined, null,   *)
(* a cyclic object, or any container built so far, of either family.       *)
(***************************************************************************)
Payloads(h) == Prim \cup {Null} \cup {Ref(i) : i \in 1..Len(h)}

CallSomeOf ==
  \E v \in Payloads(heap) :
    Call("Some", 0, <<v>>, <<>>, Some(heap, v, <<>>))

CallOkOf ==
  \E v \in Payloads(heap) :
    Call("Ok", 0, <<v>>, <<>>, Ok(heap, v, <<>>))

CallErrOf ==
  \E e \in Payloads(heap) :
    Call("Err", 0, <<e>>, <<>>, Err(heap, e, <<>>))

NextPayloads ==
  \/ Continue
  \/ CallSomeOf
  \/ CallOkOf
  \/ CallErrOf
  \/ CallOption_is_none
  \/ CallOption_is_some
  \/ CallOption_unwrap
  \/ CallResult_is_err
  \/ CallResult_is_ok
  \/ CallResult_unwrap
  \/ CallResult_unwrap_err

SpecPayloads == Init /\ [][NextPayloads]_vars

(***************************************************************************)
(* The algebraic laws, on the factories, map and and_then.                 *)
(* Two ways a caller chains and_then: c.and_then(f).and_then(g), and       *)
(* c.and_then(x => f(x).and_then(g)), where the outer call runs            *)
(* and_then's code with that callback.  A chain starts on a heap within    *)
(* the bound and keeps the containers it builds on the way.                *)
(***************************************************************************)
Option_and_then_chain(h, this, f, g) ==
  LET a == Option_and_then(h, this, f) IN
  IF Raised(a) THEN a ELSE
  LET b == Option_and_then(a.heap, a.val.n, g) IN
  [b EXCEPT !.calls = a.calls \o b.calls]

Option_and_then_nested(h, this, f, g) ==
  IF Option_is_some(h, this)
  THEN LET x == Option_extract(h, this, <<>>) IN
       IF Raised(x) THEN x ELSE
       LET a == Invoke(h, f, <<x.val>>, x.calls) IN
       IF Raised(a) THEN a ELSE
       LET b == Option_and_then(a.heap, a.val.n, g) IN
       [b EXCEPT !.calls = a.calls \o b.calls]
  ELSE Option_constructor(h, nid, Undefined, <<>>)

Result_and_then_chain(h, this, f, g) ==
  LET a == Result_and_then(h, this, f) IN
  IF Raised(a) THEN a ELSE
  LET b == Result_and_then(a.heap, a.val.n, g) IN
  [b EXCEPT !.calls = a.calls \o b.calls]

Result_and_then_nested(h, this, f, g) ==
  IF Result_is_ok(h, this)
  THEN LET x == Result_extract(h, this, <<>>) IN
       IF Raised(x) THEN x ELSE
       LET a == Invoke(h, f, <<x.val>>, x.calls) IN
       IF Raised(a) THEN a ELSE
       LET b == Result_and_then(a.heap, a.val.n, g) IN
       [b EXCEPT !.calls = a.calls \o b.calls]
  ELSE LET e == Result_extract_err(h, this, <<>>) IN
       IF Raised(e) THEN e ELSE Result_constructor(h, eid, e.val, e.calls)

\* The caller's chain op on this, with callbacks fs, ends as res.
Chain(op, this, fs, res) ==
  /\ last = NoCall
  /\ Len(heap) <= MaxHeap
  /\ \E r \in {res} :
       /\ heap' = r.heap
       /\ last' = [op |-> op, this |-> this, args |-> <<>>, fs |-> fs, kind |-> r.kind,
                   val |-> r.val, cls |-> r.cls, msg |-> r.msg, calls |-> r.calls,
                   base |-> Len(heap)]

CallOption_and_then_chain ==
  \E x \in Options(heap), f \in OptionMakers, g \in OptionMakers :
    Chain("Option.and_then.and_then", x, <<f, g>>, Option_and_then_chain(heap, x, f, g))

CallOption_and_then_nested ==
  \E x \in Options(heap), f \in OptionMakers, g \in OptionMakers :
    Chain("Option.and_then(and_then)", x, <<f, g>>, Option_and_then_nested(heap, x, f, g))

CallResult_and_then_chain ==
  \E x \in Results(heap), f \in ResultMakers, g \in ResultMakers :
    Chain("Result.and_then.and_then", x, <<f, g>>, Result_and_then_chain(heap, x, f, g))

CallResult_and_then_nested ==
  \E x \in Results(heap), f \in ResultMakers, g \in ResultMakers :
    Chain("Result.and_then(and_then)", x, <<f, g>>, Result_and_then_nested(heap, x, f, g))

NextLaws ==
  \/ Continue
  \/ CallSome
  \/ CallOk
  \/ CallErr
  \/ CallOption_and_then_chain
  \/ CallOption_and_then_nested
  \/ CallOption_map
  \/ CallResult_and_then_chain
  \/ CallResult_and_then_nested
  \/ CallResult_map

SpecLaws == Init /\ [][NextLaws]_vars

(***************************************************************************)
(* The factories and the combinators that build a None.                    *)
(***************************************************************************)
NextEquality ==
  \/ Continue
  \/ CallSome
  \/ CallOk
  \/ CallErr
  \/ CallOption_and
  \/ CallOption_and_then
  \/ CallOption_filter
  \/ CallOption_flatten
  \/ CallOption_map
  \/ CallOption_xor

SpecEquality == Init /\ [][NextEquality]_vars

(***************************************************************************)
(* The earlier class Option_API of src/src/option/option.ts.  Its          *)
(* constructor stores the value under whichever key it is given, without   *)
(* a check, and its methods read this[sid] directly.  Its objects live on  *)
(* the same kind of heap, under the class name "Option_API"; the module's  *)
(* own None constant is the first object.                                  *)
(***************************************************************************)
Option_API_constructor(h, id, value, calls) == NewObject(h, "Option_API", id, value, calls)

Option_API_is_none(h, this) == HasOwn(h, this, nid)
Option_API_is_some(h, this) == HasOwn(h, this, sid)

Option_API_Some(h, value, calls) == Option_API_constructor(h, sid, value, calls)
Option_API_None == 1

Option_API_inspect(h, this, f) ==
  LET r == Invoke(h, f, <<Get(h, this, sid)>>, <<>>) IN
  IF Raised(r) THEN r ELSE Ret(r.heap, Ref(this), r.calls)

Option_API_is_some_and(h, this, f) ==
  IF Option_API_is_some(h, this)
  THEN Ret(h, Bool(TRUE), <<>>)
  ELSE Invoke(h, f, <<Get(h, this, sid)>>, <<>>)

Option_API_or_other(h, this, optb) == Ret(h, Ref(optb), <<>>)

Option_API_or(h, this, optb) ==
  IF Option_API_is_some(h, this) THEN Ret(h, Ref(this), <<>>) ELSE Ret(h, Ref(optb), <<>>)

Option_APIs(h) == {i \in 1..Len(h) : h[i].cls = "Option_API"}
\* The values a caller wraps: a primitive or an Option_API built so far
Option_API_Values(h) == Prim \cup {Ref(i) : i \in Option_APIs(h)}

\* export const None = new Option_API(nid, undefined)
InitOption_API ==
  /\ heap = Option_API_constructor(<<>>, nid, Undefined, <<>>).heap
  /\ last = NoCall

CallOption_API_Some ==
  \E v \in Option_API_Values(heap) :
    Call("Option_API.Some", 0, <<v>>, <<>>, Option_API_Some(heap, v, <<>>))

CallOption_API_inspect ==
  \E x \in Option_APIs(heap), f \in Effects :
    Call("Option_API.inspect", x, <<>>, <<f>>, Option_API_inspect(heap, x, f))

CallOption_API_is_none ==
  \E x \in Option_APIs(heap) :
    Call("Option_API.is_none", x, <<>>, <<>>, Ret(heap, Bool(Option_API_is_none(heap, x)), <<>>))

CallOption_API_is_some ==
  \E x \in Option_APIs(heap) :
    Call("Option_API.is_some", x, <<>>, <<>>, Ret(heap, Bool(Option_API_is_some(heap, x)), <<>>))

CallOption_API_is_some_and ==
  \E x \in Option_APIs(heap), f \in Predicates :
    Call("Option_API.is_some_and", x, <<>>, <<f>>, Option_API_is_some_and(heap, x, f))

CallOption_API_or ==
  \E x \in Option_APIs(heap), y \in Option_APIs(heap) :
    Call("Option_API.or", x, <<Ref(y)>>, <<>>, Option_API_or(heap, x, y))

NextOption_API ==
  \/ Continue
  \/ CallOption_API_Some
  \/ CallOption_API_inspect
  \/ CallOption_API_is_none
  \/ CallOption_API_is_some
  \/ CallOption_API_is_some_and
  \/ CallOption_API_or

SpecOption_API == InitOption_API /\ [][NextOption_API]_vars

(***************************************************************************)
(* The earlier classes of src/option/option.ts: an abstract                *)
(* OptionConstructor that keeps the value in the field _value, with the    *)
(* subclasses Some and None (imported there as SomeConstructor and         *)
(* NoneConstructor).  A method call dispatches on the class of the         *)
(* receiver; the module's own None constant is the first object.           *)
(***************************************************************************)
value_field == "_value"

OptionConstructor_constructor(h, cls, value, calls) == NewObject(h, cls, value_field, value, calls)
SomeConstructor_constructor(h, value, calls) == OptionConstructor_constructor(h, "Some", value, calls)
NoneConstructor_constructor(h, calls) == OptionConstructor_constructor(h, "None", Undefined, calls)

\* this instanceof Some, this instanceof None
InstanceOfSome(h, this) == h[this].cls = "Some"
InstanceOfNone(h, this) == h[this].cls = "None"

\* The overrides answer with a constant, by class
OptionConstructor_is_some(h, this) == IF InstanceOfSome(h, this) THEN TRUE ELSE FALSE
OptionConstructor_is_none(h, this) == IF InstanceOfSome(h, this) THEN FALSE ELSE TRUE

OptionConstructor_filter(h, this, predicate) ==
  IF InstanceOfNone(h, this)
  THEN NoneConstructor_constructor(h, <<>>)
  ELSE LET p == Invoke(h, predicate, <<Get(h, this, value_field)>>, <<>>) IN
       IF Raised(p) THEN p
       ELSE IF Truthy(p.val)
            THEN SomeConstructor_constructor(p.heap, Get(h, this, value_field), p.calls)
            ELSE NoneConstructor_constructor(p.heap, p.calls)

SomeConstructor_map_skip(h, this, transform) == Ret(h, Get(h, this, value_field), <<>>)

SomeConstructor_map(h, this, transform) ==
  Invoke(h, transform, <<Get(h, this, value_field)>>, <<>>)
NoneConstructor_map(h, this, transform) ==
  Throw(h, "TypeError", "Attempted to map a \"None\" value", <<>>)
OptionConstructor_map(h, this, transform) ==
  IF InstanceOfSome(h, this)
  THEN SomeConstructor_map(h, this, transform)
  ELSE NoneConstructor_map(h, this, transform)

SomeConstructor_unwrap(h, this) == Ret(h, Get(h, this, value_field), <<>>)
NoneConstructor_unwrap(h, this) ==
  Throw(h, "TypeError", "Attempted to unwrap a \"None\" value", <<>>)
OptionConstructor_unwrap(h, this) ==
  IF InstanceOfSome(h, this) THEN SomeConstructor_unwrap(h, this) ELSE NoneConstructor_unwrap(h, this)

OptionConstructor_Some(h, value, calls) == SomeConstructor_constructor(h, value, calls)
OptionConstructor_None == 1

OptionConstructors(h) == {i \in 1..Len(h) : h[i].cls \in {"Some", "None"}}
\* The values a caller wraps: a primitive or a Some or None built so far
OptionConstructor_Values(h) == Prim \cup {Ref(i) : i \in OptionConstructors(h)}

\* export const None = new NoneConstructor()
InitOptionConstructor ==
  /\ heap = NoneConstructor_constructor(<<>>, <<>>).heap
  /\ last = NoCall

CallOptionConstructor_Some ==
  \E v \in OptionConstructor_Values(heap) :
    Call("OptionConstructor.Some", 0, <<v>>, <<>>, OptionConstructor_Some(heap, v, <<>>))

CallOptionConstructor_filter ==
  \E x \in OptionConstructors(heap), f \in Predicates :
    Call("OptionConstructor.filter", x, <<>>, <<f>>, OptionConstructor_filter(heap, x, f))

CallOptionConstructor_is_none ==
  \E x \in OptionConstructors(heap) :
    Call("OptionConstructor.is_none", x, <<>>, <<>>,
         Ret(heap, Bool(OptionConstructor_is_none(heap, x)), <<>>))

CallOptionConstructor_is_some ==
  \E x \in OptionConstructors(heap) :
    Call("OptionConstructor.is_some", x, <<>>, <<>>,
         Ret(heap, Bool(OptionConstructor_is_some(heap, x)), <<>>))

CallOptionConstructor_map ==
  \E x \in OptionConstructors(heap), f \in Mappers :
    Call("OptionConstructor.map", x, <<>>, <<f>>, OptionConstructor_map(heap, x, f))

CallOptionConstructor_unwrap ==
  \E x \in OptionConstructors(heap) :
    Call("OptionConstructor.unwrap", x, <<>>, <<>>, OptionConstructor_unwrap(heap, x))

NextOptionConstructor ==
  \/ Continue
  \/ CallOptionConstructor_Some
  \/ CallOptionConstructor_filter
  \/ CallOptionConstructor_is_none
  \/ CallOptionConstructor_is_some
  \/ CallOptionConstructor_map
  \/ CallOptionConstructor_unwrap

SpecOptionConstructor == InitOptionConstructor /\ [][NextOptionConstructor]_vars

(***************************************************************************)
(* The claims.  this is the receiver of the last call; heap is only ever  *)
(* extended, so the receiver is read in the state after the call.         *)
(***************************************************************************)
IsOption(i) == i \in Options(heap)
IsResult(i) == i \in Results(heap)
OnOption(op) == last.op = op /\ IsOption(last.this)
OnResult(op) == last.op = op /\ IsResult(last.this)
Returned == last.kind = "return"
Threw(cls, msg) == last.kind = "throw" /\ last.cls = cls /\ last.msg = msg
\* The names of the callbacks the last call invoked, in order
Invoked == [k \in 1..Len(last.calls) |-> last.calls[k].f]
Failing == {"raise", "tfail"}
\* A callback raised in the last call
CallbackRaised == last.calls # <<>> /\ last.calls[Len(last.calls)].f \in Failing

\* C1: every Option built by the factories and the combinators is exactly
\* one of is_some / is_none, and every Result exactly one of is_ok / is_err.
C1_ExactlyOneVariant ==
  \A i \in 1..Len(heap) :
    IF heap[i].cls = "Option"
    THEN Option_is_some(heap, i) # Option_is_none(heap, i)
    ELSE Result_is_ok(heap, i) # Result_is_err(heap, i)

C1_Witness ==
  /\ OnOption("Option.ok_or") /\ Returned
  /\ last.this # None /\ Option_is_none(heap, last.this)
  /\ Result_is_err(heap, last.val.n) /\ ~Result_is_ok(heap, last.val.n)

\* C2: no step changes a container that exists: every object of the heap
\* keeps its properties, whether the call returns or raises.
C2_NoMutation ==
  [][\A i \in 1..Len(heap) : i <= Len(heap') /\ heap'[i] = heap[i]]_vars

C2_Witness ==
  /\ OnOption("Option.inspect") /\ Returned
  /\ Option_is_some(heap, last.this) /\ Len(last.calls) = 1
  /\ last.val = Ref(last.this)

\* How the last call ended when it ended as the maker f applied to arg does.
EndsAsMaker(f, arg) ==
  CASE f = "ok" -> Returned /\ last.val.t = "ref" /\ heap[last.val.n].props = (oid :> arg)
    [] f = "err" -> Returned /\ last.val.t = "ref" /\ heap[last.val.n].props = (eid :> arg)
    [] OTHER -> last.kind = "throw"

\* C3: Result.or_else(f) on an Ok returns an Ok of the same value without
\* invoking f; on an Err(e) it invokes f with e and returns f's result.
C3_OrElseGetsError ==
  OnResult("Result.or_else") =>
    IF Result_is_ok(heap, last.this)
    THEN /\ last.calls = <<>> /\ Returned
         /\ Result_is_ok(heap, last.val.n)
         /\ Get(heap, last.val.n, oid) = Get(heap, last.this, oid)
    ELSE /\ last.calls = <<[f |-> last.fs[1], args |-> <<Get(heap, last.this, eid)>>]>>
         /\ EndsAsMaker(last.fs[1], Get(heap, last.this, eid))

\* How the last call ended when it ended as the mapper f applied to arg does.
EndsAsMapper(f, arg) ==
  CASE f = "id" -> Returned /\ last.val = arg
    [] f = "k0" -> Returned /\ last.val = Num(0)
    [] OTHER -> last.kind = "throw"

\* C4: Result.unwrap_or_else(f) on an Ok(v) returns v without invoking f;
\* on an Err(e) it invokes f with e and returns f(e).
C4_UnwrapOrElseGetsError ==
  OnResult("Result.unwrap_or_else") =>
    IF Result_is_ok(heap, last.this)
    THEN last.calls = <<>> /\ Returned /\ last.val = Get(heap, last.this, oid)
    ELSE /\ last.calls = <<[f |-> last.fs[1], args |-> <<Get(heap, last.this, eid)>>]>>
         /\ EndsAsMapper(last.fs[1], Get(heap, last.this, eid))

C4_Witness ==
  /\ OnResult("Result.unwrap_or_else") /\ Result_is_err(heap, last.this)
  /\ last.fs = <<"id">> /\ Returned /\ last.val = Str("bad")

\* C5: no container is built other than by the factories: a direct
\* construction by outside code never yields an object, and every container
\* has exactly one of the two properties of its family.
C5_OnlyFactories ==
  /\ last.op \in {"new Option", "new Result"} => last.kind = "throw"
  /\ C1_ExactlyOneVariant

\* The callbacks an operation's contract needs, given the receiver's variant.
Needed ==
  LET some == IsOption(last.this) /\ Option_is_some(heap, last.this)
      ok == IsResult(last.this) /\ Result_is_ok(heap, last.this)
      f1 == <<last.fs[1]>>
  IN CASE last.op \in {"Option.and_then", "Option.filter", "Option.map", "Option.map_or",
                       "Option.inspect", "Option.is_some_and", "Option.is_none_or"} ->
            IF some THEN f1 ELSE <<>>
       [] last.op \in {"Option.or_else", "Option.unwrap_or_else"} ->
            IF some THEN <<>> ELSE f1
       [] last.op = "Option.map_or_else" ->
            IF some THEN <<last.fs[2]>> ELSE f1
       [] last.op \in {"Result.and_then", "Result.map", "Result.map_or", "Result.inspect",
                       "Result.is_ok_and"} ->
            IF ok THEN f1 ELSE <<>>
       [] last.op \in {"Result.or_else", "Result.unwrap_or_else", "Result.inspect_err",
                       "Result.is_err_and"} ->
            IF ok THEN <<>> ELSE f1
       [] last.op = "Result.map_or_else" ->
            IF ok THEN <<last.fs[2]>> ELSE f1
       [] OTHER -> <<>>

\* C6: an operation invokes each callback its contract needs exactly once,
\* within the call, and no other callback: the callbacks invoked by the call
\* are exactly the needed ones, and a call given no callback invokes none.
C6_CallbackOnceWhenNeeded ==
  /\ Invoked = Needed
  /\ last.fs = <<>> => last.calls = <<>>

C6_Witness ==
  /\ OnResult("Result.map_or_else") /\ Result_is_ok(heap, last.this)
  /\ last.fs = <<"t0", "id">> /\ Invoked = <<"id">> /\ Returned

\* The calls the contract lets raise: unwrap and expect on a None or an Err,
\* unwrap_err and expect_err on an Ok.
MayRaise ==
  \/ last.op \in {"Option.unwrap", "Option.expect"} /\ Option_is_none(heap, last.this)
  \/ last.op \in {"Result.unwrap", "Result.expect"} /\ Result_is_err(heap, last.this)
  \/ last.op \in {"Result.unwrap_err", "Result.expect_err"} /\ Result_is_ok(heap, last.this)

GuardMessages ==
  {"Prevent taking value from 'None'.", "Prevent taking value from 'Err(E)'.",
   "Prevent taking err from 'Ok(T)'.", "Unknown constructor id"}

C8_OptionUnwrap ==
  OnOption("Option.unwrap") =>
    IF Option_is_some(heap, last.this)
    THEN Returned /\ last.val = Get(heap, last.this, sid)
    ELSE Threw("TypeError", "Called Option.unwrap() on a None value")

C8_Witness ==
  /\ OnOption("Option.unwrap") /\ last.this # None
  /\ Option_is_none(heap, last.this) /\ last.kind = "throw"

Rendered(msg, v) ==
  msg \o ": " \o Display(heap, JSON_stringify(heap, v, <<>>).val, <<>>).val.s
HasRendering(v) == ~Raised(JSON_stringify(heap, v, <<>>))

Fresh(v) == v.t = "ref" /\ v.n > last.base /\ v.n <= Len(heap)
\* A value that is an Option without a value / with the value x
IsAbsent(v) ==
  /\ v.t = "ref" /\ IsOption(v.n)
  /\ Option_is_none(heap, v.n) /\ ~Option_is_some(heap, v.n)
IsPresent(v, x) ==
  /\ v.t = "ref" /\ IsOption(v.n)
  /\ Option_is_some(heap, v.n) /\ ~Option_is_none(heap, v.n)
  /\ Get(heap, v.n, sid) = x
\* The value of the receiver of the last call
Payload == Get(heap, last.this, sid)

\* C11: Option.and(other) on a Some returns other itself, also when other
\* is a None; on a None it returns a None whatever other is.
C11_OptionAnd ==
  OnOption("Option.and") =>
    /\ Returned /\ last.calls = <<>>
    /\ IF Option_is_some(heap, last.this)
       THEN last.val = last.args[1]
       ELSE IsAbsent(last.val)

C11_Witness ==
  /\ OnOption("Option.and") /\ Option_is_some(heap, last.this)
  /\ last.args[1] # Ref(last.this) /\ IsAbsent(last.args[1])
  /\ last.val = last.args[1]

\* The last call ended as the Option-returning callback f does on arg
EndsAsOptionMaker(f, arg) ==
  CASE f = "some" -> Returned /\ Fresh(last.val) /\ IsPresent(last.val, arg)
    [] f = "none" -> Returned /\ last.val = Ref(None)
    [] OTHER -> Threw("Error", "boom")

\* C12: Option.and_then(f) on a Some(v) invokes f once, with v, and ends as
\* f does (f's result is returned, f's exception propagates); on a None it
\* returns a None without invoking f.
C12_OptionAndThen ==
  OnOption("Option.and_then") =>
    IF Option_is_some(heap, last.this)
    THEN /\ last.calls = <<[f |-> last.fs[1], args |-> <<Payload>>]>>
         /\ EndsAsOptionMaker(last.fs[1], Payload)
    ELSE Returned /\ IsAbsent(last.val) /\ last.calls = <<>>

C12_Witness ==
  /\ OnOption("Option.and_then") /\ Option_is_some(heap, last.this)
  /\ last.fs = <<"some">> /\ Payload = Str("bad")
  /\ Returned /\ IsPresent(last.val, Str("bad")) /\ last.val # Ref(last.this)

OnOptionAPI(op) == last.op = op /\ last.this \in Option_APIs(heap)
IsPresentAPI(v, x) ==
  /\ v.t = "ref" /\ v.n \in Option_APIs(heap)
  /\ Option_API_is_some(heap, v.n) /\ ~Option_API_is_none(heap, v.n)
  /\ Get(heap, v.n, sid) = x

\* C13: or(other) on a Some(v) returns a fresh Some wrapping the same v,
\* a new object and not the receiver, whatever other is; on a None it
\* returns other itself.  Stated of Option.or and of Option_API.or.
C13_OptionOr ==
  /\ OnOption("Option.or") =>
       /\ Returned /\ last.calls = <<>>
       /\ IF Option_is_some(heap, last.this)
          THEN Fresh(last.val) /\ IsPresent(last.val, Payload)
          ELSE last.val = last.args[1]
  /\ OnOptionAPI("Option_API.or") =>
       /\ Returned /\ last.calls = <<>>
       /\ IF Option_API_is_some(heap, last.this)
          THEN Fresh(last.val) /\ IsPresentAPI(last.val, Payload)
          ELSE last.val = last.args[1]

\* C13 as amended: or(other) on a Some(v) returns a Some wrapping the same
\* v whatever other is, a fresh object from Option.or and the receiver
\* itself from Option_API.or; on a None both return other itself.
C13_OptionOrAmended ==
  /\ OnOption("Option.or") =>
       /\ Returned /\ last.calls = <<>>
       /\ IF Option_is_some(heap, last.this)
          THEN Fresh(last.val) /\ IsPresent(last.val, Payload)
          ELSE last.val = last.args[1]
  /\ OnOptionAPI("Option_API.or") =>
       /\ Returned /\ last.calls = <<>>
       /\ IF Option_API_is_some(heap, last.this)
          THEN last.val = Ref(last.this) /\ IsPresentAPI(last.val, Payload)
          ELSE last.val = last.args[1]

C13_Witness ==
  /\ OnOptionAPI("Option_API.or") /\ Option_API_is_some(heap, last.this)
  /\ last.args[1] # Ref(last.this) /\ Option_API_is_some(heap, last.args[1].n)
  /\ last.val = Ref(last.this)

\* C14: Option.xor(other) returns a Some exactly when one of the receiver
\* and other is a Some, and that Some wraps the value of the one that is;
\* it returns a None when both are Some and when both are None.
C14_OptionXor ==
  OnOption("Option.xor") =>
    LET other == last.args[1].n
        a == Option_is_some(heap, last.this)
        b == Option_is_some(heap, other)
    IN /\ Returned /\ last.calls = <<>>
       /\ IF a /\ ~b THEN IsPresent(last.val, Payload)
          ELSE IF b /\ ~a THEN IsPresent(last.val, Get(heap, other, sid))
          ELSE IsAbsent(last.val)

C14_Witness ==
  /\ OnOption("Option.xor")
  /\ Option_is_some(heap, last.this) /\ Option_is_some(heap, last.args[1].n)
  /\ Returned /\ IsAbsent(last.val)

\* What the predicate x => x === 0 answers on arg
Holds(f, arg) == f = "is0" /\ arg = Num(0)

\* C15: Option.filter(pred) on a Some(v) invokes pred once, with v, and
\* returns a fresh Some(v) if pred(v) is true and a None if it is false (an
\* exception of pred propagates); on a None it returns a None and pred is
\* not invoked.
C15_OptionFilter ==
  OnOption("Option.filter") =>
    IF Option_is_some(heap, last.this)
    THEN /\ last.calls = <<[f |-> last.fs[1], args |-> <<Payload>>]>>
         /\ IF last.fs[1] \in Failing THEN Threw("Error", "boom")
            ELSE IF Holds(last.fs[1], Payload)
            THEN Returned /\ Fresh(last.val) /\ IsPresent(last.val, Payload)
            ELSE Returned /\ IsAbsent(last.val)
    ELSE Returned /\ IsAbsent(last.val) /\ last.calls = <<>>

C15_Witness ==
  /\ OnOption("Option.filter") /\ Option_is_some(heap, last.this)
  /\ last.fs = <<"is0">> /\ Payload = Str("bad")
  /\ Len(last.calls) = 1 /\ Returned /\ IsAbsent(last.val)

OnOptionConstructor(op) == last.op = op /\ last.this \in OptionConstructors(heap)
IsSomeConstructor(v, x) ==
  /\ v.t = "ref" /\ v.n \in OptionConstructors(heap)
  /\ OptionConstructor_is_some(heap, v.n) /\ ~OptionConstructor_is_none(heap, v.n)
  /\ Get(heap, v.n, value_field) = x
IsNoneConstructor(v) ==
  /\ v.t = "ref" /\ v.n \in OptionConstructors(heap)
  /\ OptionConstructor_is_none(heap, v.n) /\ ~OptionConstructor_is_some(heap, v.n)

\* What the callbacks x => x and x => 0 return on arg
Apply(f, arg) == IF f = "id" THEN arg ELSE Num(0)

\* C16: map(f) on a Some(v) invokes f once, with v, and returns a Some of
\* f(v) (an exception of f propagates); on a None it returns a None, f is
\* not invoked and nothing is raised.  Stated of Option.map and of the map
\* of OptionConstructor's subclasses.
C16_OptionMap ==
  /\ OnOption("Option.map") =>
       IF Option_is_some(heap, last.this)
       THEN /\ last.calls = <<[f |-> last.fs[1], args |-> <<Payload>>]>>
            /\ IF last.fs[1] \in Failing THEN Threw("Error", "boom")
               ELSE Returned /\ IsPresent(last.val, Apply(last.fs[1], Payload))
       ELSE Returned /\ IsAbsent(last.val) /\ last.calls = <<>>
  /\ OnOptionConstructor("OptionConstructor.map") =>
       LET v == Get(heap, last.this, value_field) IN
       IF OptionConstructor_is_some(heap, last.this)
       THEN /\ last.calls = <<[f |-> last.fs[1], args |-> <<v>>]>>
            /\ IF last.fs[1] \in Failing THEN Threw("Error", "boom")
               ELSE Returned /\ IsSomeConstructor(last.val, Apply(last.fs[1], v))
       ELSE Returned /\ IsNoneConstructor(last.val) /\ last.calls = <<>>

\* C16 as amended: Option.map(f) is as stated: a Some of f(v) on a Some(v),
\* a None without invoking f on a None.  The map of OptionConstructor's
\* subclasses invokes f once, with v, on a Some(v) and returns f(v) itself,
\* not wrapped; on a None it throws a TypeError without invoking f.
C16_OptionMapAmended ==
  /\ OnOption("Option.map") =>
       IF Option_is_some(heap, last.this)
       THEN /\ last.calls = <<[f |-> last.fs[1], args |-> <<Payload>>]>>
            /\ IF last.fs[1] \in Failing THEN Threw("Error", "boom")
               ELSE Returned /\ IsPresent(last.val, Apply(last.fs[1], Payload))
       ELSE Returned /\ IsAbsent(last.val) /\ last.calls = <<>>
  /\ OnOptionConstructor("OptionConstructor.map") =>
       LET v == Get(heap, last.this, value_field) IN
       IF OptionConstructor_is_some(heap, last.this)
       THEN /\ last.calls = <<[f |-> last.fs[1], args |-> <<v>>]>>
            /\ IF last.fs[1] \in Failing THEN Threw("Error", "boom")
               ELSE Returned /\ last.val = Apply(last.fs[1], v)
       ELSE /\ Threw("TypeError", "Attempted to map a \"None\" value")
            /\ last.calls = <<>>

C16_Witness ==
  /\ OnOptionConstructor("OptionConstructor.map")
  /\ OptionConstructor_is_some(heap, last.this)
  /\ Get(heap, last.this, value_field) = Str("bad")
  /\ last.fs = <<"k0">> /\ Len(last.calls) = 1
  /\ Returned /\ last.val = Num(0)

\* The last call invoked its first callback once, with arg, and nothing else
InvokedOnceWith(arg) == last.calls = <<[f |-> last.fs[1], args |-> <<arg>>]>>

\* The claim of inspect about the call a step makes, on a receiver that is
\* a Some (present) or not
InspectStep(present) ==
  /\ IF present THEN InvokedOnceWith(Payload)' ELSE last'.calls = <<>>
  /\ IF CallbackRaised' THEN Threw("Error", "boom")'
     ELSE Returned' /\ last'.val = Ref(last'.this)
  /\ heap' = heap

\* C17: inspect(f) invokes f, with the wrapped value, if and only if the
\* receiver is a Some, and returns the receiver itself, the same object with
\* the same variant and payload as before the call (an exception of f
\* propagates).  Stated of Option.inspect and of Option_API.inspect.
C17_OptionInspect ==
  [][/\ OnOption("Option.inspect")' => InspectStep(Option_is_some(heap, last'.this))
     /\ OnOptionAPI("Option_API.inspect")' =>
          InspectStep(Option_API_is_some(heap, last'.this))]_vars

\* The claim of is_some_and about the last call, on a receiver that is a
\* Some of payload (present) or not
IsSomeAnd(present, payload) ==
  IF present
  THEN /\ InvokedOnceWith(payload)
       /\ IF CallbackRaised THEN Threw("Error", "boom")
          ELSE Returned /\ last.val = Bool(Holds(last.fs[1], payload))
  ELSE Returned /\ last.val = Bool(FALSE) /\ last.calls = <<>>

\* C18: is_some_and(pred) is true exactly when the receiver is a Some(v) and
\* pred(v) is true, pred being invoked once with v (its exception
\* propagates); on a None it is false and pred is not invoked.  Stated of
\* Option.is_some_and and of Option_API.is_some_and.
C18_OptionIsSomeAnd ==
  /\ OnOption("Option.is_some_and") =>
       IsSomeAnd(Option_is_some(heap, last.this), Payload)
  /\ OnOptionAPI("Option_API.is_some_and") =>
       IsSomeAnd(Option_API_is_some(heap, last.this), Payload)

\* C19: Option.map_or_else(default_f, f) on a Some(v) invokes f once, with
\* v, returns f(v) and does not invoke default_f; on a None it invokes
\* default_f once, with no argument, returns its result and does not invoke
\* f.  An exception of the invoked callback propagates.
C19_OptionMapOrElse ==
  OnOption("Option.map_or_else") =>
    IF Option_is_some(heap, last.this)
    THEN /\ last.calls = <<[f |-> last.fs[2], args |-> <<Payload>>]>>
         /\ IF last.fs[2] \in Failing THEN Threw("Error", "boom")
            ELSE Returned /\ last.val = Apply(last.fs[2], Payload)
    ELSE /\ last.calls = <<[f |-> last.fs[1], args |-> <<>>]>>
         /\ IF last.fs[1] \in Failing THEN Threw("Error", "boom")
            ELSE Returned /\ last.val = Num(0)

C19_Witness ==
  /\ OnOption("Option.map_or_else") /\ Option_is_some(heap, last.this)
  /\ last.fs = <<"tfail", "id">> /\ Payload = Str("bad")
  /\ Invoked = <<"id">> /\ Returned /\ last.val = Str("bad")

\* C20: Option.ok_or(err) on a Some(v) returns an Ok of v, for which is_ok
\* is true and unwrap gives v; on a None it returns an Err of err, for which
\* is_err is true and unwrap_err gives err.  No callback is involved.
C20_OptionOkOr ==
  OnOption("Option.ok_or") =>
    /\ Returned /\ last.calls = <<>>
    /\ Fresh(last.val) /\ IsResult(last.val.n)
    /\ LET r == last.val.n
           e == last.args[1]
       IN IF Option_is_some(heap, last.this)
          THEN /\ Result_is_ok(heap, r) /\ ~Result_is_err(heap, r)
               /\ Result_unwrap(heap, r) = Ret(heap, Payload, <<>>)
          ELSE /\ Result_is_err(heap, r) /\ ~Result_is_ok(heap, r)
               /\ Result_unwrap_err(heap, r) = Ret(heap, e, <<>>)

C20_Witness ==
  /\ OnOption("Option.ok_or") /\ Option_is_some(heap, last.this)
  /\ Payload = Num(0) /\ last.args = <<Str("bad")>>
  /\ Returned /\ IsResult(last.val.n) /\ Result_is_ok(heap, last.val.n)
  /\ Get(heap, last.val.n, oid) = Num(0)

IsSuccess(v, x) ==
  /\ v.t = "ref" /\ IsResult(v.n)
  /\ Result_is_ok(heap, v.n) /\ ~Result_is_err(heap, v.n)
  /\ Get(heap, v.n, oid) = x
IsFailure(v, e) ==
  /\ v.t = "ref" /\ IsResult(v.n)
  /\ Result_is_err(heap, v.n) /\ ~Result_is_ok(heap, v.n)
  /\ Get(heap, v.n, eid) = e
OkPayload == Get(heap, last.this, oid)
ErrPayload == Get(heap, last.this, eid)

C22_ResultMap ==
  OnResult("Result.map") =>
    IF Result_is_ok(heap, last.this)
    THEN /\ InvokedOnceWith(OkPayload)
         /\ IF last.fs[1] \in Failing THEN Threw("Error", "boom")
            ELSE Returned /\ IsSuccess(last.val, Apply(last.fs[1], OkPayload))
    ELSE Returned /\ IsFailure(last.val, ErrPayload) /\ last.calls = <<>>

C22_Witness ==
  /\ OnResult("Result.map") /\ Result_is_err(heap, last.this)
  /\ ErrPayload = Str("bad") /\ last.fs = <<"k0">>
  /\ Returned /\ IsFailure(last.val, Str("bad")) /\ last.calls = <<>>

\* The claim of Result's inspect and inspect_err about the call a step
\* makes: the callback is invoked, once and with payload, exactly when
\* needed; the call returns the receiver itself unless the callback raised,
\* and no object is built or changed.
ResultInspectStep(needed, payload) ==
  /\ IF needed
     THEN last'.calls = <<[f |-> last'.fs[1], args |-> <<payload>>]>>
     ELSE last'.calls = <<>>
  /\ IF CallbackRaised' THEN Threw("Error", "boom")'
     ELSE Returned' /\ last'.val = Ref(last'.this)
  /\ heap' = heap

\* C23: Result.inspect(f) invokes f, with the value, if and only if the
\* receiver is an Ok, Result.inspect_err(f) invokes f, with the error, if
\* and only if the receiver is an Err, and both return the receiver itself,
\* the same object with the same variant and payload as before the call.
C23_ResultInspect ==
  [][/\ OnResult("Result.inspect")' =>
          ResultInspectStep(Result_is_ok(heap, last'.this), Get(heap, last'.this, oid))
     /\ OnResult("Result.inspect_err")' =>
          ResultInspectStep(Result_is_err(heap, last'.this), Get(heap, last'.this, eid))]_vars

C23_Witness ==
  /\ OnResult("Result.inspect_err") /\ Result_is_err(heap, last.this)
  /\ ErrPayload = Str("bad") /\ last.fs = <<"noop">>
  /\ last.calls = <<[f |-> "noop", args |-> <<Str("bad")>>]>>
  /\ Returned /\ last.val = Ref(last.this)

\* C24: Result.is_ok_and(f) on an Ok(v) invokes f once, with v, and returns
\* its answer, and Result.is_err_and(f) does so on an Err(e) with e (an
\* exception of f propagates); on the other variant both return false and
\* f is not invoked.
C24_ResultGuardedPredicates ==
  /\ OnResult("Result.is_ok_and") =>
       IsSomeAnd(Result_is_ok(heap, last.this), OkPayload)
  /\ OnResult("Result.is_err_and") =>
       IsSomeAnd(Result_is_err(heap, last.this), ErrPayload)

C24_Witness ==
  /\ OnResult("Result.is_err_and") /\ Result_is_err(heap, last.this)
  /\ ErrPayload = Num(0) /\ last.fs = <<"is0">>
  /\ Returned /\ last.val = Bool(TRUE)

\* C25: the container Some(v) returns is a Some and not a None, and unwrap
\* on it returns exactly v; the container Err(e) returns is an Err and not
\* an Ok, and unwrap_err on it returns exactly e; for every payload,
\* undefined, null and containers included.
C25_RoundTrip ==
  /\ last.op = "Some" =>
       /\ Returned /\ Fresh(last.val) /\ IsOption(last.val.n)
       /\ Option_is_some(heap, last.val.n) /\ ~Option_is_none(heap, last.val.n)
       /\ Option_unwrap(heap, last.val.n) = Ret(heap, last.args[1], <<>>)
  /\ last.op = "Err" =>
       /\ Returned /\ Fresh(last.val) /\ IsResult(last.val.n)
       /\ Result_is_err(heap, last.val.n) /\ ~Result_is_ok(heap, last.val.n)
       /\ Result_unwrap_err(heap, last.val.n) = Ret(heap, last.args[1], <<>>)

C25_Witness ==
  /\ last.op = "Some" /\ last.args = <<Null>>
  /\ Option_is_some(heap, last.val.n)
  /\ Option_unwrap(heap, last.val.n).val = Null
  /\ \E i \in Results(heap) : Get(heap, i, eid) = Ref(None)

(***************************************************************************)
(* Structural equality, as a deep-equality routine sees containers: the    *)
(* same class and the same own property, symbol keys included, with        *)
(* structurally equal values.  Shape writes a value's structure down.      *)
(***************************************************************************)
Keys == <<sid, nid, oid, eid, foreign, value_field>>
RECURSIVE Shape(_, _)
RECURSIVE ShapeProps(_, _, _)
\* The own properties of object i among the keys from position k on
ShapeProps(h, i, k) ==
  IF k > Len(Keys) THEN ""
  ELSE IF Keys[k] \in DOMAIN h[i].props
       THEN Keys[k] \o ": " \o Shape(h, h[i].props[Keys[k]]) \o "; " \o ShapeProps(h, i, k + 1)
       ELSE ShapeProps(h, i, k + 1)
Shape(h, v) ==
  IF v.t = "ref"
  THEN h[v.n].cls \o "{" \o ShapeProps(h, v.n, 1) \o "}"
  ELSE v.t \o "(" \o ToString(v.n) \o "," \o v.s \o ")"

\* How a call ended, up to structural equality of what it returned
Outcome(r) ==
  IF r.kind = "return" THEN <<"return", Shape(r.heap, r.val)>>
  ELSE <<"throw", r.cls \o ": " \o r.msg>>
LastOutcome ==
  IF Returned THEN <<"return", Shape(heap, last.val)>>
  ELSE <<"throw", last.cls \o ": " \o last.msg>>

\* C26: and_then is associative in both families: c.and_then(f).and_then(g)
\* and c.and_then(x => f(x).and_then(g)) end the same way, with structurally
\* equal containers or with the same exception, for every receiver c and
\* all callbacks f and g.
C26_AndThenAssociative ==
  /\ OnOption("Option.and_then.and_then") =>
       LastOutcome = Outcome(Option_and_then_nested(heap, last.this, last.fs[1], last.fs[2]))
  /\ OnOption("Option.and_then(and_then)") =>
       LastOutcome = Outcome(Option_and_then_chain(heap, last.this, last.fs[1], last.fs[2]))
  /\ OnResult("Result.and_then.and_then") =>
       LastOutcome = Outcome(Result_and_then_nested(heap, last.this, last.fs[1], last.fs[2]))
  /\ OnResult("Result.and_then(and_then)") =>
       LastOutcome = Outcome(Result_and_then_chain(heap, last.this, last.fs[1], last.fs[2]))

C26_Witness ==
  /\ OnOption("Option.and_then.and_then") /\ Option_is_some(heap, last.this)
  /\ last.fs = <<"some", "some">> /\ Payload = Str("bad")
  /\ Len(last.calls) = 2 /\ Len(heap) = last.base + 2
  /\ Returned /\ IsPresent(last.val, Str("bad"))

\* C27: map preserves identity: for every Option c, c.map(x => x) returns a
\* container structurally equal to c, and so does c.map(x => x) for every
\* Ok c of Result.
C27_MapIdentity ==
  /\ OnOption("Option.map") /\ last.fs = <<"id">> =>
       Returned /\ Shape(heap, last.val) = Shape(heap, Ref(last.this))
  /\ OnResult("Result.map") /\ last.fs = <<"id">> /\ Result_is_ok(heap, last.this) =>
       Returned /\ Shape(heap, last.val) = Shape(heap, Ref(last.this))

C27_Witness ==
  /\ OnOption("Option.map") /\ last.fs = <<"id">>
  /\ IsPresent(Ref(last.this), Str("bad"))
  /\ Returned /\ last.val # Ref(last.this)
  /\ Shape(heap, last.val) = Shape(heap, Ref(last.this))

StructurallyEqual(a, b) == Shape(heap, a) = Shape(heap, b)

\* C28: equality of containers is structural.  Two Some are structurally
\* equal exactly when their values are; a Some is never structurally equal
\* to a None; every None, the ones the combinators build included, is
\* structurally equal to the None constant; two Results are structurally
\* equal exactly when they have the same variant and structurally equal
\* payloads.
C28_StructuralEquality ==
  /\ \A i \in Options(heap), j \in Options(heap) :
       /\ Option_is_some(heap, i) /\ Option_is_some(heap, j) =>
            (StructurallyEqual(Ref(i), Ref(j))
               <=> StructurallyEqual(Get(heap, i, sid), Get(heap, j, sid)))
       /\ Option_is_some(heap, i) /\ Option_is_none(heap, j) =>
            ~StructurallyEqual(Ref(i), Ref(j))
  /\ \A i \in Options(heap) :
       Option_is_none(heap, i) => StructurallyEqual(Ref(i), Ref(None))
  /\ \A i \in Results(heap), j \in Results(heap) :
       LET pi == IF Result_is_ok(heap, i) THEN Get(heap, i, oid) ELSE Get(heap, i, eid)
           pj == IF Result_is_ok(heap, j) THEN Get(heap, j, oid) ELSE Get(heap, j, eid)
       IN StructurallyEqual(Ref(i), Ref(j))
            <=> /\ Result_is_ok(heap, i) = Result_is_ok(heap, j)
                /\ Result_is_err(heap, i) = Result_is_err(heap, j)
                /\ StructurallyEqual(pi, pj)

C28_Witness ==
  /\ OnOption("Option.xor") /\ Returned /\ Fresh(last.val) /\ IsAbsent(last.val)
  /\ last.val # Ref(None) /\ StructurallyEqual(last.val, Ref(None))
  /\ Option_is_some(heap, last.this)
  /\ ~StructurallyEqual(Ref(last.this), last.val)

\* A callback that raises was invoked in the call the step makes
RaisingInvoked == \E k \in 1..Len(last.calls) : last.calls[k].f \in Failing

\* C29: when a callback a combinator invokes raises, the call ends with
\* that same exception, not caught, not wrapped and returning no container;
\* the callback is not invoked again and nothing is invoked after it; the
\* receiver has the variant and payload it had before the call.
C29_CallbackExceptionPropagates ==
  [][RaisingInvoked' =>
       /\ Threw("Error", "boom")'
       /\ \A k \in 1..Len(last'.calls) :
            last'.calls[k].f \in Failing <=> k = Len(last'.calls)
       /\ last'.this \in 1..Len(heap)
       /\ heap'[last'.this] = heap[last'.this]]_vars

C29_Witness ==
  /\ OnResult("Result.and_then") /\ Result_is_ok(heap, last.this)
  /\ last.calls = <<[f |-> "raise", args |-> <<OkPayload>>]>>
  /\ Threw("Error", "boom") /\ Len(heap) = last.base

BeginsWith(s, p) == Len(s) >= Len(p) /\ SubSeq(s, 1, Len(p)) = p

\* C30: for every payload, Result.expect(msg) on an Err and
\* Result.expect_err(msg) on an Ok raise an Error, and no other kind of
\* error, whose message begins with msg followed by ": "; also for a payload
\* without a JSON rendering and for one whose JSON rendering fails.
C30_ExpectFailsWithMessage ==
  \/ OnResult("Result.expect") /\ Result_is_err(heap, last.this)
  \/ OnResult("Result.expect_err") /\ Result_is_ok(heap, last.this)
  => /\ last.kind = "throw" /\ last.cls = "Error"
     /\ BeginsWith(last.msg, last.args[1].s \o ": ")

====
